---- MODULE Spec2Model ----
(***************************************************************************)
(* The execution core of the svrx node tree (src/core/execution.py):       *)
(* the result cache SvTreeDB, the graph preprocessor (filter_reroute,      *)
(* verify_links), the scheduler (topo_sort, DAG), the level matching       *)
(* engine (recurse_levels) and the driver (exec_node_group).               *)
(*                                                                         *)
(* Conventions.  Python indices start at 0, TLA+ sequences at 1: a socket  *)
(* index i of the source is i + 1 here.  An optional value (Python None or *)
(* an object) is a sequence of length 0 or 1.  A Python exception is a     *)
(* non-empty error name carried in the result of the operator.             *)
(***************************************************************************)
EXTENDS Integers, Sequences, FiniteSets, TLC

(***************************************************************************)
(* Bounds of the model.                                                    *)
(***************************************************************************)
MaxLinks == 3
MaxRuns == 2
MaxLen == 3
MaxNest == 2

None == <<>>
Some(x) == <<x>>
IsSome(o) == Len(o) = 1

SetMax(S) == CHOOSE m \in S : \A x \in S : x <= m

RECURSIVE SeqSum(_)
SeqSum(s) == IF Len(s) = 0 THEN 0 ELSE Head(s) + SeqSum(Tail(s))

(***************************************************************************)
(* SvDataTree (svrx.core.data_tree, not part of the sources at hand): a    *)
(* container with a level, one payload when it is a leaf, and an ordered   *)
(* sequence of child containers otherwise.                                 *)
(***************************************************************************)
SvDataTree(d) == [level |-> 0, data |-> d, children |-> <<>>]

\* set_level: the level is recomputed bottom-up from what was written.
RECURSIVE set_level(_)
set_level(t) ==
    IF Len(t.children) = 0
    THEN [t EXCEPT !.level = 0]
    ELSE LET cs == [i \in 1..Len(t.children) |-> set_level(t.children[i])]
         IN  [level |-> 1 + SetMax({cs[i].level : i \in 1..Len(t.children)}),
              data |-> t.data,
              children |-> cs]

\* assign(level, data): a level 0 write stores the payload, a level 1 write
\* stores one leaf per element of the returned sequence.
RECURSIVE assign(_, _, _)
assign(t, l, result) ==
    IF l = 0
    THEN [t EXCEPT !.data = Some(result)]
    ELSE [t EXCEPT !.children =
             [i \in 1..Len(result) |-> assign(SvDataTree(None), l - 1, result[i])]]

\* add_child(): a new empty container appended to the children.
add_child == SvDataTree(None)

\* iter(tree): the payloads of the children, in order.
TreeList(t) == [i \in 1..Len(t.children) |-> t.children[i].data]

(***************************************************************************)
(* Function descriptors.  A parameter is (socket index | property name,    *)
(* level, type); a return is (type, level).  add (math.py:14), np_repeat   *)
(* (repeat.py:9), transform (transform.py:6) and mesh_out (MeshOut,        *)
(* mesh_out.py:91) are functions of the node library; value (a property    *)
(* parameter), sum (a level 1 parameter), split (two outputs) and          *)
(* scale_sum (a level 1 and a level 0 parameter) stand for the other forms *)
(* a descriptor takes, and num_to_verts for the adapter the conversion     *)
(* registry holds for Number -> Vertices.                                  *)
(***************************************************************************)
SockParam(i, l, ty) == [is_prop |-> FALSE, index |-> i, prop |-> "", level |-> l, type |-> ty]
PropParam(p, l, ty) == [is_prop |-> TRUE, index |-> 0, prop |-> p, level |-> l, type |-> ty]
Return(ty, l) == [type |-> ty, level |-> l]

Parameters(f) ==
    CASE f = "value"        -> <<PropParam("value", 0, "Number")>>
      [] f = "add"          -> <<SockParam(1, 0, "Number"), SockParam(2, 0, "Number")>>
      [] f = "np_repeat"    -> <<SockParam(1, 0, "Number"), SockParam(2, 0, "Int")>>
      [] f = "sum"          -> <<SockParam(1, 1, "Number")>>
      [] f = "transform"    -> <<SockParam(1, 0, "Vertices"), SockParam(2, 0, "Matrix")>>
      [] f = "mesh_out"     -> <<SockParam(1, 0, "Vertices"), SockParam(2, 0, "Edges"),
                                 SockParam(3, 0, "Faces"), SockParam(4, 0, "Matrix")>>
      [] f = "num_to_verts" -> <<SockParam(1, 0, "Number")>>
      [] f = "split"        -> <<SockParam(1, 0, "Number"), SockParam(2, 0, "Number")>>
      [] f = "scale_sum"    -> <<SockParam(1, 1, "Number"), SockParam(2, 0, "Number")>>
      [] OTHER              -> <<>>

Returns(f) ==
    CASE f = "value"        -> <<Return("Number", 0)>>
      [] f = "add"          -> <<Return("Number", 0)>>
      [] f = "np_repeat"    -> <<Return("Number", 1)>>
      [] f = "sum"          -> <<Return("Number", 0)>>
      [] f = "transform"    -> <<Return("Vertices", 0)>>
      [] f = "mesh_out"     -> <<>>
      [] f = "num_to_verts" -> <<Return("Vertices", 0)>>
      [] f = "split"        -> <<Return("Number", 0), Return("Number", 0)>>
      [] f = "scale_sum"    -> <<Return("Number", 0)>>
      [] OTHER              -> <<>>

\* isinstance(func, Stateful)
IsStateful(f) == f = "mesh_out"

InLevels(f) == [i \in 1..Len(Parameters(f)) |-> Parameters(f)[i].level]
OutLevels(f) == [i \in 1..Len(Returns(f)) |-> Returns(f)[i].level]

Ret(v) == [err |-> "", val |-> v]
Raise(e) == [err |-> e, val |-> 0]

\* f(*args): a level 0 argument is the payload of the container (None when
\* the container holds none), a level 1 argument the list of payloads.
\* Arithmetic on None raises TypeError; MeshOut.__call__ only appends.
Apply(f, args) ==
    CASE f = "value" -> Ret(args[1][1])
      [] f = "add" ->
            IF IsSome(args[1]) /\ IsSome(args[2])
            THEN Ret(args[1][1] + args[2][1]) ELSE Raise("TypeError")
      [] f = "np_repeat" ->
            IF IsSome(args[1]) /\ IsSome(args[2])
            THEN Ret([i \in 1..args[2][1] |-> args[1][1]]) ELSE Raise("TypeError")
      [] f = "sum" ->
            IF \A i \in 1..Len(args[1]) : IsSome(args[1][i])
            THEN Ret(SeqSum([i \in 1..Len(args[1]) |-> args[1][i][1]]))
            ELSE Raise("TypeError")
      [] f = "transform" ->
            IF IsSome(args[1]) /\ IsSome(args[2])
            THEN Ret(args[1][1] * args[2][1]) ELSE Raise("TypeError")
      [] f = "mesh_out" -> Ret(0)
      [] f = "num_to_verts" ->
            IF IsSome(args[1]) THEN Ret(args[1][1]) ELSE Raise("TypeError")
      [] f = "split" ->
            IF IsSome(args[1]) /\ IsSome(args[2])
            THEN Ret(<<args[1][1] + args[2][1], args[1][1] * args[2][1]>>)
            ELSE Raise("TypeError")
      [] f = "scale_sum" ->
            IF IsSome(args[2]) /\ \A i \in 1..Len(args[1]) : IsSome(args[1][i])
            THEN Ret(args[2][1] * SeqSum([i \in 1..Len(args[1]) |-> args[1][i][1]]))
            ELSE Raise("TypeError")
      [] OTHER -> Raise("TypeError")

(***************************************************************************)
(* recurse_levels (src/core/execution.py:205-262).  The output containers  *)
(* are objects the code mutates in place; here the operator returns them   *)
(* as written (outs), with the list of argument tuples f was called with   *)
(* (calls), the exception that ended it (err, "" for none) and the number  *)
(* of add_child calls (adds).  out_trees holds None for an absent output.  *)
(***************************************************************************)
Min(a, b) == IF a <= b THEN a ELSE b

\* zip(*results)
ZipStar(results) ==
    IF Len(results) = 0 THEN <<>>
    ELSE LET n == CHOOSE m \in {Len(results[i]) : i \in 1..Len(results)} :
                      \A i \in 1..Len(results) : m <= Len(results[i])
         IN  [j \in 1..n |-> [i \in 1..Len(results) |-> results[i][j]]]

\* Variant of BaseArgs that hands over the payload of every container,
\* whatever its level (the branch of line 219 lost).
BaseArgs_payload_only(in_trees) ==
    [i \in 1..Len(in_trees) |-> in_trees[i].data]

\* lines 216-221: the arguments of the base case
BaseArgs(in_trees) ==
    [i \in 1..Len(in_trees) |->
        IF in_trees[i].level = 0 THEN in_trees[i].data ELSE TreeList(in_trees[i])]

\* Variant of StoreResults that stores a result for an absent output too, in
\* a container of its own (the tests "if out_tree" of lines 228 and 230
\* lost).
StoreResults_unchecked(out_levels, out_trees, results) ==
    IF Len(out_trees) > 1
    THEN LET rs == IF \E j \in 1..Len(out_levels) : out_levels[j] > 0
                   THEN ZipStar(results) ELSE results
             n  == Min(Len(out_trees), Min(Len(out_levels), Len(rs)))
         IN  [j \in 1..Len(out_trees) |->
                 IF j <= n
                 THEN Some(assign(IF IsSome(out_trees[j]) THEN out_trees[j][1]
                                  ELSE SvDataTree(None), out_levels[j], rs[j]))
                 ELSE out_trees[j]]
    ELSE IF Len(out_trees) = 1
    THEN <<Some(assign(IF IsSome(out_trees[1]) THEN out_trees[1][1] ELSE SvDataTree(None),
                       out_levels[1], results))>>
    ELSE out_trees

\* lines 223-232: the results are stored in the output containers
StoreResults(out_levels, out_trees, results) ==
    IF Len(out_trees) > 1
    THEN LET rs == IF \E j \in 1..Len(out_levels) : out_levels[j] > 0
                   THEN ZipStar(results) ELSE results
             n  == Min(Len(out_trees), Min(Len(out_levels), Len(rs)))
         IN  [j \in 1..Len(out_trees) |->
                 IF j <= n /\ IsSome(out_trees[j])
                 THEN Some(assign(out_trees[j][1], out_levels[j], rs[j]))
                 ELSE out_trees[j]]
    ELSE IF Len(out_trees) = 1 /\ IsSome(out_trees[1])
    THEN <<Some(assign(out_trees[1][1], out_levels[1], results))>>
    ELSE out_trees

\* line 211
LevelsMatch(in_levels, in_trees) ==
    \A i \in 1..Min(Len(in_trees), Len(in_levels)) : in_trees[i].level = in_levels[i]

\* lines 234-241: the children of the inputs that are broadcast axes
InnerTrees(in_levels, in_trees) ==
    [i \in 1..Min(Len(in_trees), Len(in_levels)) |->
        IF in_trees[i].level # in_levels[i] THEN Some(in_trees[i].children) ELSE None]

\* Variant of MaxLength in which max_length keeps its initial value
\* (line 239 lost).
MaxLength_initial(inner) == SetMax({1})

MaxLength(inner) ==
    SetMax({1} \cup {Len(inner[i][1]) : i \in {k \in 1..Len(inner) : IsSome(inner[k])}})

\* lines 244-252: the inputs of iteration i (0-based); inner_tree[-1] of an
\* empty list raises IndexError
LoopArgsFail(inner) ==
    \E k \in 1..Len(inner) : IsSome(inner[k]) /\ Len(inner[k][1]) = 0

\* Variant of LoopArgs that cycles through a short list instead of
\* repeating its last child.
LoopArgs_cycling(in_trees, inner, i) ==
    [k \in 1..Len(inner) |->
        IF ~IsSome(inner[k]) THEN in_trees[k]
        ELSE inner[k][1][(i % Len(inner[k][1])) + 1]]

LoopArgs(in_trees, inner, i) ==
    [k \in 1..Len(inner) |->
        IF ~IsSome(inner[k]) THEN in_trees[k]
        ELSE IF i < Len(inner[k][1]) THEN inner[k][1][i + 1]
        ELSE inner[k][1][Len(inner[k][1])]]

RECURSIVE recurse_levels(_, _, _, _, _)
RECURSIVE recurse_loop(_, _, _, _, _, _, _, _)

recurse_levels(f, in_levels, out_levels, in_trees, out_trees) ==
    IF LevelsMatch(in_levels, in_trees)
    THEN LET args == BaseArgs(in_trees)
             r    == Apply(f, args)
         IN  [outs  |-> IF r.err = "" THEN StoreResults(out_levels, out_trees, r.val)
                        ELSE out_trees,
              calls |-> <<args>>,
              err   |-> r.err,
              adds  |-> 0]
    ELSE LET inner == InnerTrees(in_levels, in_trees)
         IN  recurse_loop(f, in_levels, out_levels, in_trees, inner, MaxLength(inner), 0,
                          [outs |-> out_trees, calls |-> <<>>, err |-> "", adds |-> 0])

\* lines 243-262: iteration i of the loop, then the rest of it
recurse_loop(f, in_levels, out_levels, in_trees, inner, max_length, i, acc) ==
    IF i >= max_length \/ acc.err # "" THEN acc
    ELSE IF LoopArgsFail(inner) THEN [acc EXCEPT !.err = "IndexError"]
    ELSE LET args == LoopArgs(in_trees, inner, i)
             outs == [j \in 1..Len(acc.outs) |->
                         IF IsSome(acc.outs[j]) THEN Some(add_child) ELSE None]
             r    == recurse_levels(f, in_levels, out_levels, args, outs)
             n    == Cardinality({j \in 1..Len(acc.outs) : IsSome(acc.outs[j])})
         IN  recurse_loop(f, in_levels, out_levels, in_trees, inner, max_length, i + 1,
                 [outs  |-> [j \in 1..Len(acc.outs) |->
                                IF IsSome(acc.outs[j])
                                THEN Some([acc.outs[j][1] EXCEPT
                                              !.children = Append(@, r.outs[j][1])])
                                ELSE None],
                  calls |-> acc.calls \o r.calls,
                  err   |-> r.err,
                  adds  |-> acc.adds + n + r.adds])

(***************************************************************************)
(* The node tree the driver is run on (the graph introspection interface   *)
(* of the editor): eight nodes, their kinds, sockets and stored values.    *)
(***************************************************************************)
Nodes == 1..8

\* node.bl_idname, by which compile() finds the function of the node
NodeKind(n) ==
    CASE n = 1 -> "value"
      [] n = 2 -> "np_repeat"
      [] n = 3 -> "add"
      [] n = 4 -> "add"
      [] n = 5 -> "transform"
      [] n = 6 -> "mesh_out"
      [] OTHER -> "NodeReroute"

IsReroute(n) == n \in Nodes /\ NodeKind(n) = "NodeReroute"

Sock(n, out, i) == [node |-> n, is_output |-> out, index |-> i]

Link(fs, ts) == [from_socket |-> fs, to_socket |-> ts, is_valid |-> TRUE, virtual |-> FALSE]

\* VirtualLink.__init__ (lines 78-82); lines 84-89 are VLinked below
VirtualLink(fs, ts) == [from_socket |-> fs, to_socket |-> ts, is_valid |-> TRUE, virtual |-> TRUE]

\* The links the editor may draw in this tree.
LinkChoices ==
    { Link(Sock(1, TRUE, 1), Sock(3, FALSE, 1)),
      Link(Sock(1, TRUE, 1), Sock(4, FALSE, 1)),
      Link(Sock(4, TRUE, 1), Sock(3, FALSE, 2)),
      Link(Sock(3, TRUE, 1), Sock(4, FALSE, 2)),
      Link(Sock(2, TRUE, 1), Sock(3, FALSE, 1)),
      Link(Sock(2, TRUE, 1), Sock(6, FALSE, 1)),
      Link(Sock(3, TRUE, 1), Sock(6, FALSE, 1)),
      Link(Sock(5, TRUE, 1), Sock(6, FALSE, 1)),
      Link(Sock(1, TRUE, 1), Sock(6, FALSE, 2)),
      Link(Sock(1, TRUE, 1), Sock(5, FALSE, 1)),
      Link(Sock(1, TRUE, 1), Sock(7, FALSE, 1)),
      Link(Sock(7, TRUE, 1), Sock(3, FALSE, 1)),
      Link(Sock(7, TRUE, 1), Sock(8, FALSE, 1)),
      Link(Sock(8, TRUE, 1), Sock(3, FALSE, 1)),
      Link(Sock(7, TRUE, 1), Sock(6, FALSE, 1)) }

RECURSIVE LinkSeqs(_)
LinkSeqs(n) ==
    IF n = 0 THEN {<<>>}
    ELSE LET shorter == LinkSeqs(n - 1)
         IN  shorter \cup
             { Append(s, l) : s \in {t \in shorter : Len(t) = n - 1},
                              l \in LinkChoices }

\* An input socket has at most one upstream link, and the output of a
\* passthrough node is linked only when its input is.
WellFormed(ls) ==
    /\ \A i, j \in 1..Len(ls) : i # j => ls[i].to_socket # ls[j].to_socket
    /\ \A i \in 1..Len(ls) :
          IsReroute(ls[i].from_socket.node) =>
              \E j \in 1..Len(ls) : ls[j].to_socket.node = ls[i].from_socket.node

\* link.is_valid is FALSE for at most the link at position bad (0: none)
WithInvalid(ls, bad) ==
    [i \in 1..Len(ls) |-> IF i = bad THEN [ls[i] EXCEPT !.is_valid = FALSE] ELSE ls[i]]

VARIABLES
    ng_links,       \* node_group.links: the links of the tree, in order
    repeat,         \* the stored default of the Repeat socket of node 2
    data_trees,     \* SvTreeDB.data_trees: tree name -> socket -> container
    next_id,        \* identity of the next SvDataTree object the cache creates
    nodes,          \* exec_node_group: node -> compiled function
    socket_links,   \* exec_node_group: input socket -> producer output socket
    vlinked,        \* the VirtualSockets whose is_linked is True
    dag_list,       \* the schedule returned by DAG
    pos,            \* position of the loop of exec_node_group in dag_list
    status,         \* "idle", "running", "done" (returned) or "failed" (raised)
    error,          \* the exception that ended the run, "" for none
    run,            \* number of runs started
    hooks,          \* calls made in this run: compile, start, call, stop, eval
    reads,          \* SvTreeDB.get calls of this run, with the object returned
    timings,        \* the module level list timings
    rl_func,        \* one evaluation (lines 330-341): the function of the node
    rl_in_trees,    \* its input containers
    rl_out_trees,   \* its output containers, None for an unlinked socket
    rl_result,      \* what recurse_levels did with them
    rl_pc,          \* "off", "ready", "called", "raised" or "levelled"
    pre_filtered,   \* DAG step by step: what filter_reroute returned
    pre_verified,   \* what verify_links returned, for each value of real_nodes
    pre_sorted,     \* what topo_sort returned
    pre_pc,         \* "off", "start", "filtered", "verified" or "sorted"
    h_pc            \* a run on a second tree: "off", "idle", "running",
                    \* "evaluated" or "done"

rl_vars == <<rl_func, rl_in_trees, rl_out_trees, rl_result, rl_pc>>

pre_vars == <<pre_filtered, pre_verified, pre_sorted, pre_pc>>

vars == <<ng_links, repeat, data_trees, next_id, nodes, socket_links, vlinked,
          dag_list, pos, status, error, run, hooks, reads, timings, rl_vars, pre_vars,
          h_pc>>

\* node_group.name
NG == "G"

IsVirtual(n) == n \notin Nodes

\* socket.is_linked: of a socket of the tree, whether a link of the tree
\* ends at it; of a VirtualSocket, the flag VirtualLink sets (lines 84-88)
IsLinked(links, vl, s) ==
    IF IsVirtual(s.node) THEN s \in vl
    ELSE \E i \in 1..Len(links) : links[i].to_socket = s \/ links[i].from_socket = s

\* socket.required (VirtualSocket: line 98)
Required(s) ==
    /\ ~IsVirtual(s.node)
    /\ ~s.is_output
    /\ NodeKind(s.node) \in {"transform", "mesh_out"}
    /\ s.index = 1

\* socket.default_value: the defaults of the signatures (math.py:14,
\* repeat.py:9, transform.py:6-7, mesh_out.py:92-95); Required has none.
\* A VirtualSocket takes the default of func.inputs_template (line 69).
DefaultValue(s, rep) ==
    IF IsVirtual(s.node) THEN Some(0)
    ELSE CASE NodeKind(s.node) = "add" -> Some(0)
           [] NodeKind(s.node) = "np_repeat" -> IF s.index = 1 THEN Some(5) ELSE Some(rep)
           [] NodeKind(s.node) = "transform" -> IF s.index = 1 THEN None ELSE Some(1)
           [] OTHER -> None

\* getattr(node, prop): the stored property of the node
PropValue(n, prop) == 10

\* Events of the log hooks.
Ev(e, n) == [ev |-> e, node |-> n]

\* node.compile(): NodeBase.compile (classes.py:27-28) looks the function
\* up; NodeStateful.compile (classes.py:86-87) makes a new instance of the
\* class, whose __init__ (mesh_out.py:11-15) calls self.start().
CompileEvents(n) ==
    IF IsStateful(NodeKind(n))
    THEN <<Ev("compile", n), Ev("start", n)>>
    ELSE <<Ev("compile", n)>>

Compile(n) == [func |-> NodeKind(n), events |-> CompileEvents(n)]

(***************************************************************************)
(* Type-Conversion Registry (svrx.core.type_conversion, not part of the    *)
(* sources at hand).                                                       *)
(***************************************************************************)
needs_conversion(from_type, to_type) == from_type # to_type

HasConversion(from_type, to_type) == from_type = "Number" /\ to_type = "Vertices"

\* (func, to_index, from_index); fails when the registry has no adapter
get_conversion(from_type, to_type) ==
    IF HasConversion(from_type, to_type)
    THEN [err |-> "", func |-> "num_to_verts", to_index |-> <<1>>, from_index |-> 1]
    ELSE [err |-> "MissingConversionError", func |-> "", to_index |-> <<>>, from_index |-> 0]

(***************************************************************************)
(* filter_reroute (lines 118-130)                                          *)
(***************************************************************************)
\* socket.other: the output socket upstream of an input socket, through
\* passthrough nodes; None when there is none.
RECURSIVE Other(_, _, _)
Other(links, s, fuel) ==
    LET into == {i \in 1..Len(links) : links[i].to_socket = s}
    IN  IF into = {} \/ fuel = 0 THEN None
        ELSE LET l == links[CHOOSE i \in into : \A j \in into : i <= j]
             IN  IF IsReroute(l.from_socket.node)
                 THEN Other(links, Sock(l.from_socket.node, FALSE, 1), fuel - 1)
                 ELSE Some(l.from_socket)

RECURSIVE filter_loop(_, _, _)
filter_loop(links, i, acc) ==
    IF i > Len(links) THEN [links |-> acc, err |-> ""]
    ELSE LET l == links[i]
         IN  IF ~l.is_valid THEN [links |-> <<>>, err |-> ""]
             ELSE IF IsReroute(l.to_socket.node) THEN filter_loop(links, i + 1, acc)
             ELSE IF IsReroute(l.from_socket.node)
             THEN LET o == Other(links, l.to_socket, Len(links))
                  IN  IF IsSome(o)
                      THEN filter_loop(links, i + 1, Append(acc, VirtualLink(o[1], l.to_socket)))
                      ELSE [links |-> <<>>, err |-> "AttributeError"]
             ELSE filter_loop(links, i + 1, Append(acc, l))

\* Variant of filter_reroute that drops an invalid link and keeps the rest
\* (continue instead of return [] at line 122).
filter_reroute_skipping(links) ==
    filter_loop(SelectSeq(links, LAMBDA l : l.is_valid), 1, <<>>)

filter_reroute(links) == filter_loop(links, 1, <<>>)

(***************************************************************************)
(* verify_links (lines 133-179)                                            *)
(***************************************************************************)
\* The node made for the link at position i (VirtualNode, lines 64-71, or
\* ng.nodes.new, line 155).
AdapterId(i) == Cardinality(Nodes) + i

\* lines 137-140: compile the node unless the run has compiled it
Compiled(st, n) ==
    IF n \in DOMAIN st.nodes THEN st
    ELSE [st EXCEPT !.nodes = (n :> Compile(n).func) @@ @,
                    !.events = @ \o Compile(n).events]

\* lines 145-149
ToType(to_func, socket_index) ==
    LET hits == {k \in 1..Len(Parameters(to_func)) :
                    /\ ~Parameters(to_func)[k].is_prop
                    /\ Parameters(to_func)[k].index = socket_index}
    IN  IF hits = {} THEN "None" ELSE Parameters(to_func)[SetMax(hits)].type

\* Variant of AdapterLinks in which the materialized adapter is not linked
\* to the source (lines 160-161 lost).
AdapterLinks_unfed(l, node, conv, real_nodes) ==
    IF real_nodes
    THEN <<Link(Sock(node, TRUE, conv.from_index), l.to_socket)>>
    ELSE [k \in 1..(Len(conv.to_index) + 1) |->
             IF k <= Len(conv.to_index)
             THEN VirtualLink(l.from_socket, Sock(node, FALSE, conv.to_index[k]))
             ELSE VirtualLink(Sock(node, TRUE, conv.from_index), l.to_socket)]

\* lines 160-162 and 166-168: the links through the adapter node, the one
\* from its selected output last
AdapterLinks(l, node, conv, real_nodes) ==
    [k \in 1..(Len(conv.to_index) + 1) |->
        IF k <= Len(conv.to_index)
        THEN [VirtualLink(l.from_socket, Sock(node, FALSE, conv.to_index[k]))
                 EXCEPT !.virtual = ~real_nodes]
        ELSE [VirtualLink(Sock(node, TRUE, conv.from_index), l.to_socket)
                 EXCEPT !.virtual = ~real_nodes]]

\* Variant of Adapted in which the replaced link is not marked (skip.add(i)
\* of line 151 lost).
Adapted_unskipped(st, i, conv, new, real_nodes) ==
    [st EXCEPT !.nodes  = (AdapterId(i) :> conv.func) @@ @,
               !.events = IF real_nodes THEN Append(@, Ev("compile", AdapterId(i))) ELSE @,
               !.links  = @ \o new,
               !.vl     = IF real_nodes THEN @
                          ELSE @ \cup {new[k].to_socket : k \in 1..(Len(new) - 1)}
                                 \cup {new[Len(new)].from_socket},
               !.made   = IF real_nodes THEN @ \o new ELSE @]

\* lines 154-168: the adapter node of the link at position i, and its links
\* (new) appended to the list
Adapted(st, i, conv, new, real_nodes) ==
    [st EXCEPT !.skip   = @ \cup {i},
               !.nodes  = (AdapterId(i) :> conv.func) @@ @,
               !.events = IF real_nodes THEN Append(@, Ev("compile", AdapterId(i))) ELSE @,
               !.links  = @ \o new,
               !.vl     = IF real_nodes THEN @
                          ELSE @ \cup {new[k].to_socket : k \in 1..(Len(new) - 1)}
                                 \cup {new[Len(new)].from_socket},
               !.made   = IF real_nodes THEN @ \o new ELSE @]

\* lines 151-153: get_conversion fails without an adapter, and l.id_data
\* fails on a VirtualLink, which has no such attribute
Converted(st, l, i, conv, real_nodes) ==
    IF conv.err # ""
    THEN [st EXCEPT !.skip = @ \cup {i}, !.err = conv.err]
    ELSE IF l.virtual
    THEN [st EXCEPT !.skip = @ \cup {i}, !.err = "AttributeError"]
    ELSE Adapted(st, i, conv, AdapterLinks(l, AdapterId(i), conv, real_nodes), real_nodes)

\* line 150
VerifyTypes(st, l, i, from_type, to_type, real_nodes) ==
    IF needs_conversion(from_type, to_type)
    THEN Converted(st, l, i, get_conversion(from_type, to_type), real_nodes)
    ELSE st

\* lines 141-149
VerifyLink(st, l, i, real_nodes) ==
    VerifyTypes(st, l, i,
                Returns(st.nodes[l.from_socket.node])[l.from_socket.index].type,
                ToType(st.nodes[l.to_socket.node], l.to_socket.index),
                real_nodes)

\* lines 135-168: the loop over the n links present when it starts
RECURSIVE verify_loop(_, _, _, _)
verify_loop(n, i, st, real_nodes) ==
    IF i > n \/ st.err # "" THEN st
    ELSE verify_loop(n, i + 1,
             VerifyLink(Compiled(Compiled(st, st.links[i].from_socket.node),
                                 st.links[i].to_socket.node),
                        st.links[i], i, real_nodes),
             real_nodes)

\* lines 173-176: real_links[l.to_node].append(l.from_node), in link order
RECURSIVE FromNodes(_, _, _, _)
FromNodes(links, skip, c, i) ==
    IF i > Len(links) THEN <<>>
    ELSE IF i \notin skip /\ links[i].to_socket.node = c
    THEN <<links[i].from_socket.node>> \o FromNodes(links, skip, c, i + 1)
    ELSE FromNodes(links, skip, c, i + 1)

RealLinks(links, skip) ==
    [c \in {links[i].to_socket.node : i \in (1..Len(links)) \ skip} |->
        FromNodes(links, skip, c, 1)]

\* line 177: socket_links[l.to_socket] = l.from_socket, the last link wins
SocketLinks(links, skip, sl) ==
    [s \in {links[i].to_socket : i \in (1..Len(links)) \ skip} \cup DOMAIN sl |->
        IF \E i \in (1..Len(links)) \ skip : links[i].to_socket = s
        THEN links[SetMax({i \in (1..Len(links)) \ skip : links[i].to_socket = s})].from_socket
        ELSE sl[s]]

\* lines 171-179: what verify_links returns and leaves in nodes and
\* socket_links, from the state st its loop ended in
VerifyResult(st, sl) ==
    [real_links   |-> IF st.err = "" THEN RealLinks(st.links, st.skip) ELSE <<>>,
     socket_links |-> IF st.err = "" THEN SocketLinks(st.links, st.skip, sl) ELSE sl,
     nodes  |-> st.nodes,
     vl     |-> st.vl,
     events |-> st.events,
     made   |-> st.made,
     links  |-> st.links,
     skip   |-> st.skip,
     err    |-> st.err]

verify_links(links, ns, sl, real_nodes) ==
    VerifyResult(verify_loop(Len(links), 1,
                     [links |-> links, nodes |-> ns, skip |-> {}, vl |-> {},
                      events |-> <<>>, made |-> <<>>, err |-> ""], real_nodes),
                 sl)

(***************************************************************************)
(* topo_sort (lines 100-115).  weights is the defaultdict of the code      *)
(* (absent key: -1), order the order in which its keys were inserted.      *)
(* A traversal that meets a cycle never returns: the interpreter ends it   *)
(* with RecursionError, here as soon as the depth exceeds the number of    *)
(* nodes.                                                                  *)
(***************************************************************************)
Weight(weights, n) == IF n \in DOMAIN weights THEN weights[n] ELSE 0 - 1

Producers(links, n) == IF n \in DOMAIN links THEN links[n] ELSE <<>>

GraphNodes(links) ==
    DOMAIN links \cup UNION {{links[c][k] : k \in 1..Len(links[c])} : c \in DOMAIN links}

\* Variant of Heavier that keeps the weight of the last visit (the max of
\* line 109 lost).
Heavier_last(weight, old) == weight

\* line 109: max(weight, weights[node])
Heavier(weight, old) == IF weight > old THEN weight ELSE old

RECURSIVE visit(_, _, _, _, _)
RECURSIVE visit_each(_, _, _, _, _, _)

\* lines 108-111
visit(links, node, weight, depth, st) ==
    IF st.err # "" THEN st
    ELSE IF depth > Cardinality(GraphNodes(links))
    THEN [st EXCEPT !.err = "RecursionError"]
    ELSE visit_each(links, Producers(links, node), 1, weight + 1, depth + 1,
             [weights |-> (node :> Heavier(weight, Weight(st.weights, node))) @@ st.weights,
              order   |-> IF node \in DOMAIN st.weights THEN st.order
                          ELSE Append(st.order, node),
              err     |-> ""])

\* line 110: for from_node in links[node]
visit_each(links, froms, k, weight, depth, st) ==
    IF k > Len(froms) \/ st.err # "" THEN st
    ELSE visit_each(links, froms, k + 1, weight, depth,
                    visit(links, froms[k], weight, depth, st))

\* lines 113-114: for start in starts
RECURSIVE visit_starts(_, _, _, _)
visit_starts(links, starts, k, st) ==
    IF k > Len(starts) \/ st.err # "" THEN st
    ELSE visit_starts(links, starts, k + 1, visit(links, starts[k], 0, 1, st))

\* line 115: sorted() is stable: descending weight, ties in key order
RECURSIVE sorted(_, _)
sorted(order, weights) ==
    IF Len(order) = 0 THEN <<>>
    ELSE LET top  == SetMax({weights[order[k]] : k \in 1..Len(order)})
             at   == CHOOSE k \in 1..Len(order) :
                        /\ weights[order[k]] = top
                        /\ \A j \in 1..(k - 1) : weights[order[j]] # top
             rest == [j \in 1..(Len(order) - 1) |-> IF j < at THEN order[j] ELSE order[j + 1]]
         IN  <<order[at]>> \o sorted(rest, weights)

\* Variant of topo_sort that returns the nodes in the order in which they
\* were first visited (the sort of line 115 lost).
topo_sort_unsorted(links, starts) ==
    LET st == visit_starts(links, starts, 1, [weights |-> <<>>, order |-> <<>>, err |-> ""])
    IN  [node_list |-> IF st.err = "" THEN st.order ELSE <<>>,
         weights   |-> st.weights,
         err       |-> st.err]

topo_sort(links, starts) ==
    LET st == visit_starts(links, starts, 1, [weights |-> <<>>, order |-> <<>>, err |-> ""])
    IN  [node_list |-> IF st.err = "" THEN sorted(st.order, st.weights) ELSE <<>>,
         weights   |-> st.weights,
         err       |-> st.err]

(***************************************************************************)
(* DAG (lines 182-202).  starts is a Python set: the order in which        *)
(* topo_sort iterates it is not fixed, so it is an input of the operator.  *)
(***************************************************************************)
\* Variant of StartNodes in which every consumer is a start (the test
\* "not in from_nodes" of line 199 lost).
StartNodes_all(real_links) == DOMAIN real_links

\* lines 198-199
StartNodes(real_links) ==
    LET from_nodes == UNION {{real_links[c][k] : k \in 1..Len(real_links[c])} :
                                c \in DOMAIN real_links}
    IN  {n \in DOMAIN real_links : n \notin from_nodes}

\* the orders in which a set can be iterated
Orders(S) ==
    {s \in [1..Cardinality(S) -> S] : \A i, j \in 1..Cardinality(S) : i # j => s[i] # s[j]}

\* lines 194-202 once the links are filtered (fl), verified (vr) and sorted (ts)
DAGResult(fl, vr, ts) ==
    [node_list    |-> IF fl.err = "" /\ vr.err = "" /\ ts.err = "" THEN ts.node_list ELSE <<>>,
     nodes        |-> vr.nodes,
     socket_links |-> vr.socket_links,
     vl           |-> vr.vl,
     events       |-> vr.events,
     real_links   |-> vr.real_links,
     weights      |-> ts.weights,
     err          |-> IF fl.err # "" THEN fl.err ELSE IF vr.err # "" THEN vr.err ELSE ts.err]

DAGSorted(fl, vr, starts_order) ==
    DAGResult(fl, vr, topo_sort(vr.real_links, starts_order))

DAGVerified(fl, ns, sl, starts_order) ==
    DAGSorted(fl, verify_links(fl.links, ns, sl, FALSE), starts_order)

DAG(links, ns, sl, starts_order) ==
    DAGVerified(filter_reroute(links), ns, sl, starts_order)

\* the starts of the adjacency DAG builds from the links (lines 198-199)
DAGStarts(links) ==
    StartNodes(verify_links(filter_reroute(links).links, <<>>, <<>>, FALSE).real_links)

(***************************************************************************)
(* SvTreeDB (lines 30-53).  A container the cache creates is an object:    *)
(* id tells the objects apart.                                             *)
(***************************************************************************)
\* Variant of get that makes a new container at every call (the lookup of
\* line 47 lost).
get_uncached(db, nid, socket) ==
    LET db1 == IF NG \in DOMAIN db THEN db ELSE (NG :> <<>>) @@ db
    IN  [db |-> [db1 EXCEPT ![NG] =
                    (socket :> [id |-> nid, tree |-> SvDataTree(None)]) @@ db1[NG]],
         next |-> nid + 1,
         id |-> nid, tree |-> SvDataTree(None)]

get(db, nid, socket) ==
    LET db1      == IF NG \in DOMAIN db THEN db ELSE (NG :> <<>>) @@ db
        ng_trees == db1[NG]
    IN  IF socket \in DOMAIN ng_trees
        THEN [db |-> db1, next |-> nid,
              id |-> ng_trees[socket].id, tree |-> ng_trees[socket].tree]
        ELSE [db |-> [db1 EXCEPT ![NG] =
                         (socket :> [id |-> nid, tree |-> SvDataTree(None)]) @@ ng_trees],
              next |-> nid + 1,
              id |-> nid, tree |-> SvDataTree(None)]

\* Variant of clean that keeps the entries of the tree (line 53 lost).
clean_keeping(db) == IF NG \in DOMAIN db THEN db ELSE (NG :> <<>>) @@ db

clean(db) == (NG :> <<>>) @@ db

(***************************************************************************)
(* exec_node_group (lines 283-345)                                         *)
(***************************************************************************)
TimeOf(tag, n, label) == [tag |-> tag, node |-> n, label |-> label]

\* lines 307-322: the container of one parameter
InputTree(node, param, acc) ==
    IF param.is_prop
    THEN [acc EXCEPT !.trees = Append(@, SvDataTree(Some(PropValue(node, param.prop))))]
    ELSE LET socket == Sock(node, FALSE, param.index)
         IN  IF IsLinked(ng_links, vlinked, socket)
             THEN IF socket \notin DOMAIN socket_links
                  THEN [acc EXCEPT !.err = "KeyError"]
                  ELSE LET g == get(acc.db, acc.next, socket_links[socket])
                       IN  [acc EXCEPT !.db = g.db, !.next = g.next,
                                       !.trees = Append(@, g.tree),
                                       !.reads = Append(@, [node |-> node,
                                                            socket |-> socket_links[socket],
                                                            id |-> g.id])]
             ELSE IF Required(socket)
             THEN [acc EXCEPT !.events = Append(@, Ev("warning", node)),
                              !.trees = Append(@, SvDataTree(DefaultValue(socket, repeat)))]
             ELSE [acc EXCEPT !.trees = Append(@, SvDataTree(DefaultValue(socket, repeat)))]

RECURSIVE InputTrees(_, _, _, _)
InputTrees(node, params, k, acc) ==
    IF k > Len(params) \/ acc.err # "" THEN acc
    ELSE InputTrees(node, params, k + 1, InputTree(node, params[k], acc))

\* lines 324-328: the container of each output socket, None when unlinked
RECURSIVE OutputTrees(_, _, _, _)
OutputTrees(node, n, j, acc) ==
    IF j > n THEN acc
    ELSE LET socket == Sock(node, TRUE, j)
         IN  IF IsLinked(ng_links, vlinked, socket)
             THEN LET g == get(acc.db, acc.next, socket)
                  IN  OutputTrees(node, n, j + 1,
                          [acc EXCEPT !.db = g.db, !.next = g.next,
                                      !.trees = Append(@, Some(g.tree)),
                                      !.reads = Append(@, [node |-> node, socket |-> socket,
                                                           id |-> g.id])])
             ELSE OutputTrees(node, n, j + 1, [acc EXCEPT !.trees = Append(@, None)])

\* Variant of WriteBack in which the levels are not recomputed (set_level of
\* lines 339-341 lost).
WriteBack_unlevelled(db, node, outs, finalize) ==
    [db EXCEPT ![NG] =
        [s \in DOMAIN db[NG] |->
            IF s.node = node /\ s.is_output /\ s.index <= Len(outs) /\ IsSome(outs[s.index])
            THEN [id |-> db[NG][s].id, tree |-> outs[s.index][1]]
            ELSE db[NG][s]]]

\* The containers are written in place: the cache holds what recurse_levels
\* wrote, and after lines 339-341 their levels.
WriteBack(db, node, outs, finalize) ==
    [db EXCEPT ![NG] =
        [s \in DOMAIN db[NG] |->
            IF s.node = node /\ s.is_output /\ s.index <= Len(outs) /\ IsSome(outs[s.index])
            THEN [id   |-> db[NG][s].id,
                  tree |-> IF finalize THEN set_level(outs[s.index][1])
                           ELSE outs[s.index][1]]
            ELSE db[NG][s]]]

\* time_func (lines 275-281): the label before and after each call; the
\* call that raises leaves only the first.
RECURSIVE CallTimes(_, _, _)
CallTimes(label, ncalls, raised) ==
    IF ncalls = 0 THEN <<>>
    ELSE IF ncalls = 1 /\ raised THEN <<TimeOf("func", 0, label)>>
    ELSE <<TimeOf("func", 0, label), TimeOf("func", 0, label)>>
         \o CallTimes(label, ncalls - 1, raised)

CallEvents(node, ncalls) == [k \in 1..ncalls |-> Ev("call", node)]

\* Variant of BeginWith that resets the cache of the tree only when the
\* cache does not know the tree (line 284 lost).
BeginWith_stale(d) ==
    /\ data_trees' = IF NG \in DOMAIN data_trees THEN data_trees ELSE clean(data_trees)
    /\ nodes' = d.nodes
    /\ socket_links' = d.socket_links
    /\ vlinked' = d.vl
    /\ dag_list' = d.node_list
    /\ hooks' = d.events
    /\ status' = IF d.err = "" THEN "running" ELSE "failed"
    /\ error' = d.err
    /\ timings' = <<TimeOf("ng", 0, NG), TimeOf("DAG", 0, "DAG")>>
                  \o (IF d.err = "" THEN <<TimeOf("DAG", 0, "DAG")>> ELSE <<>>)

\* lines 284-293 once DAG has returned d or raised d.err
BeginWith(d) ==
    /\ data_trees' = clean(data_trees)
    /\ nodes' = d.nodes
    /\ socket_links' = d.socket_links
    /\ vlinked' = d.vl
    /\ dag_list' = d.node_list
    /\ hooks' = d.events
    /\ status' = IF d.err = "" THEN "running" ELSE "failed"
    /\ error' = d.err
    /\ timings' = <<TimeOf("ng", 0, NG), TimeOf("DAG", 0, "DAG")>>
                  \o (IF d.err = "" THEN <<TimeOf("DAG", 0, "DAG")>> ELSE <<>>)

\* lines 284-293: the reset of the cache, then the preprocessing and the
\* schedule
Begin ==
    /\ status \in {"idle", "done", "failed"}
    /\ run < MaxRuns
    /\ \E order \in Orders(DAGStarts(ng_links)) :
          BeginWith(DAG(ng_links, <<>>, <<>>, order))
    /\ pos' = 1
    /\ reads' = <<>>
    /\ run' = run + 1
    /\ UNCHANGED <<ng_links, repeat, next_id, rl_vars, pre_vars, h_pc>>

\* lines 296-322: what the iteration has done when it reaches recurse_levels
PreEvents(node, func, ins) ==
    <<Ev("eval", node)>>
    \o (IF IsStateful(func) THEN <<Ev("start", node)>> ELSE <<>>)
    \o ins.events

\* lines 307-322 raised (a linked socket without a socket_links entry)
EvalAborted(node, func, ins) ==
    /\ data_trees' = ins.db
    /\ next_id' = ins.next
    /\ reads' = reads \o ins.reads
    /\ hooks' = hooks \o PreEvents(node, func, ins)
    /\ timings' = Append(timings, TimeOf("node", node, func))
    /\ status' = "failed"
    /\ error' = ins.err
    /\ pos' = pos

\* lines 330-343: recurse_levels returned r; stop, set_level and the timing
\* of the node are skipped when it raised
EvalCalled(node, func, ins, outs, r) ==
    /\ data_trees' = WriteBack(outs.db, node, r.outs, r.err = "")
    /\ next_id' = outs.next
    /\ reads' = reads \o outs.reads
    /\ hooks' = hooks \o PreEvents(node, func, ins) \o CallEvents(node, Len(r.calls))
                \o (IF r.err = "" /\ IsStateful(func) THEN <<Ev("stop", node)>> ELSE <<>>)
    /\ timings' = Append(timings, TimeOf("node", node, func))
                  \o CallTimes(func, Len(r.calls), r.err = "TypeError")
                  \o (IF r.err = "" THEN <<TimeOf("node", node, func)>> ELSE <<>>)
    /\ status' = IF r.err = "" THEN "running" ELSE "failed"
    /\ error' = r.err
    /\ pos' = IF r.err = "" THEN pos + 1 ELSE pos

\* lines 324-336
EvalOutputs(node, func, ins, outs) ==
    EvalCalled(node, func, ins, outs,
               recurse_levels(func, InLevels(func), OutLevels(func), ins.trees, outs.trees))

\* lines 307-328
EvalInputs(node, func, ins) ==
    IF ins.err # "" THEN EvalAborted(node, func, ins)
    ELSE EvalOutputs(node, func, ins,
             OutputTrees(node, Len(Returns(func)), 1,
                 [db |-> ins.db, next |-> ins.next, trees |-> <<>>, reads |-> ins.reads]))

\* lines 296-306
EvalFunc(node, func) ==
    EvalInputs(node, func,
        InputTrees(node, Parameters(func), 1,
            [db |-> data_trees, next |-> next_id, trees |-> <<>>,
             reads |-> <<>>, events |-> <<>>, err |-> ""]))

\* lines 294-343: one iteration of the loop over the schedule
EvalNode ==
    /\ status = "running"
    /\ pos <= Len(dag_list)
    /\ EvalFunc(dag_list[pos], nodes[dag_list[pos]])
    /\ UNCHANGED <<ng_links, repeat, nodes, socket_links, vlinked, dag_list, run,
                   rl_vars, pre_vars, h_pc>>

\* lines 344-345: the schedule is exhausted; show_timings writes the report
\* of the run to a text of the editor
Finish ==
    /\ status = "running"
    /\ pos > Len(dag_list)
    /\ timings' = Append(timings, TimeOf("ng", 0, NG))
    /\ status' = "done"
    /\ UNCHANGED <<ng_links, repeat, data_trees, next_id, nodes, socket_links, vlinked,
                   dag_list, pos, error, run, hooks, reads, rl_vars, pre_vars, h_pc>>

\* The trees the driver is run on: the layouts of at most MaxLinks links.
Layouts ==
    {WithInvalid(s, bad) : s \in {t \in LinkSeqs(MaxLinks) : WellFormed(t)},
                           bad \in 0..MaxLinks}

\* No run has started.
Idle ==
    /\ data_trees = <<>>
    /\ next_id = 1
    /\ nodes = <<>>
    /\ socket_links = <<>>
    /\ vlinked = {}
    /\ dag_list = <<>>
    /\ pos = 1
    /\ status = "idle"
    /\ error = ""
    /\ run = 0
    /\ hooks = <<>>
    /\ reads = <<>>
    /\ timings = <<>>

\* DAG is not followed step by step.
PreOff ==
    /\ pre_filtered = <<>>
    /\ pre_verified = <<>>
    /\ pre_sorted = <<>>
    /\ pre_pc = "off"

Init ==
    /\ ng_links \in Layouts
    /\ repeat \in 1..MaxLen
    /\ (repeat # 1 => \E i \in 1..Len(ng_links) : ng_links[i].from_socket.node = 2)
    /\ Idle
    /\ rl_func = ""
    /\ rl_in_trees = <<>>
    /\ rl_out_trees = <<>>
    /\ rl_result = <<>>
    /\ rl_pc = "off"
    /\ PreOff
    /\ h_pc = "off"

Next == Begin \/ EvalNode \/ Finish

Spec == Init /\ [][Next]_vars

(***************************************************************************)
(* One evaluation on its own: lines 330-341 of exec_node_group applied to  *)
(* the containers a node can be handed.  An input container is what an     *)
(* upstream evaluation left after set_level, or the container of a stored  *)
(* value; an output container is new (the cache was reset) or None.        *)
(***************************************************************************)
\* the payloads met at input k
RLVals(k) == IF k = 1 THEN {1, 2, 3} ELSE {10, 20}

SeqsUpTo(S, n) == UNION {[1..m -> S] : m \in 0..n}

\* a level 1 container of the payloads vs, as assign and set_level leave it
ListTree(vs) == set_level(assign(SvDataTree(None), 1, vs))

\* a level 2 container of lists, as the loop of recurse_levels and
\* set_level leave it
NestedTree(ls) ==
    set_level([SvDataTree(None) EXCEPT !.children = [i \in 1..Len(ls) |-> ListTree(ls[i])]])

\* the lists a level 2 container is made of: a short and a longer one
RLRows(k) ==
    LET lo == CHOOSE v \in RLVals(k) : \A w \in RLVals(k) : v <= w
        hi == CHOOSE v \in RLVals(k) : \A w \in RLVals(k) : w <= v
    IN  {<<lo>>, <<lo, hi>>}

\* a ragged level 2 container: a list and an empty list, as a level 1
\* output leaves them when it is broadcast over counts one of which is 0
RaggedTree(vs) ==
    set_level([SvDataTree(None) EXCEPT !.children = <<ListTree(vs), ListTree(<<>>)>>])

RLTrees(k) ==
    {SvDataTree(Some(v)) : v \in RLVals(k)}
    \cup {ListTree(vs) : vs \in SeqsUpTo(RLVals(k), MaxLen)}
    \cup {NestedTree(ls) : ls \in SeqsUpTo(RLRows(k), MaxNest) \ {<<>>}}
    \cup {RaggedTree(vs) : vs \in RLRows(k)}

RLFuncs == {"add", "sum", "np_repeat", "split", "scale_sum"}

RLInit ==
    /\ ng_links = <<>>
    /\ repeat = 1
    /\ Idle
    /\ rl_func \in RLFuncs
    /\ rl_in_trees \in [1..Len(Parameters(rl_func)) -> RLTrees(1) \cup RLTrees(2)]
    /\ \A k \in 1..Len(Parameters(rl_func)) : rl_in_trees[k] \in RLTrees(k)
    /\ rl_out_trees \in [1..Len(Returns(rl_func)) -> {None, Some(SvDataTree(None))}]
    /\ rl_result = <<>>
    /\ rl_pc = "ready"
    /\ PreOff
    /\ h_pc = "off"

\* lines 331-334
RLCalled(r) ==
    /\ rl_result' = r
    /\ rl_pc' = IF r.err = "" THEN "called" ELSE "raised"

RLCall ==
    /\ rl_pc = "ready"
    /\ RLCalled(recurse_levels(rl_func, InLevels(rl_func), OutLevels(rl_func),
                               rl_in_trees, rl_out_trees))
    /\ UNCHANGED <<ng_links, repeat, data_trees, next_id, nodes, socket_links, vlinked,
                   dag_list, pos, status, error, run, hooks, reads, timings,
                   rl_func, rl_in_trees, rl_out_trees, pre_vars, h_pc>>

\* lines 339-341: for ot in out_trees: if ot: ot.set_level()
RLSetLevel ==
    /\ rl_pc = "called"
    /\ rl_result' = [rl_result EXCEPT !.outs =
           [j \in 1..Len(@) |-> IF IsSome(@[j]) THEN Some(set_level(@[j][1])) ELSE None]]
    /\ rl_pc' = "levelled"
    /\ UNCHANGED <<ng_links, repeat, data_trees, next_id, nodes, socket_links, vlinked,
                   dag_list, pos, status, error, run, hooks, reads, timings,
                   rl_func, rl_in_trees, rl_out_trees, pre_vars, h_pc>>

RLNext == RLCall \/ RLSetLevel

SpecRL == RLInit /\ [][RLNext]_vars

(***************************************************************************)
(* DAG (lines 182-202) on its own, one call at a time, on the trees of     *)
(* Layouts.  verify_links takes real_nodes as a parameter that DAG leaves  *)
(* at its default; its result is kept for both values.                     *)
(***************************************************************************)
PreInit ==
    /\ ng_links \in Layouts
    /\ repeat = 1
    /\ Idle
    /\ rl_func = ""
    /\ rl_in_trees = <<>>
    /\ rl_out_trees = <<>>
    /\ rl_result = <<>>
    /\ rl_pc = "off"
    /\ pre_filtered = <<>>
    /\ pre_verified = <<>>
    /\ pre_sorted = <<>>
    /\ pre_pc = "start"
    /\ h_pc = "off"

driver_vars == <<ng_links, repeat, data_trees, next_id, nodes, socket_links, vlinked,
                 dag_list, pos, status, error, run, hooks, reads, timings>>

\* line 194
PreFilter ==
    /\ pre_pc = "start"
    /\ pre_filtered' = filter_reroute(ng_links)
    /\ pre_pc' = "filtered"
    /\ UNCHANGED <<driver_vars, rl_vars, pre_verified, pre_sorted, h_pc>>

\* line 196
PreVerify ==
    /\ pre_pc = "filtered"
    /\ pre_filtered.err = ""
    /\ pre_verified' = [real_nodes \in BOOLEAN |->
                           verify_links(pre_filtered.links, <<>>, <<>>, real_nodes)]
    /\ pre_pc' = "verified"
    /\ UNCHANGED <<driver_vars, rl_vars, pre_filtered, pre_sorted, h_pc>>

\* lines 198-201
PreSort ==
    /\ pre_pc = "verified"
    /\ pre_verified[FALSE].err = ""
    /\ \E order \in Orders(StartNodes(pre_verified[FALSE].real_links)) :
          pre_sorted' = topo_sort(pre_verified[FALSE].real_links, order)
    /\ pre_pc' = "sorted"
    /\ UNCHANGED <<driver_vars, rl_vars, pre_filtered, pre_verified, h_pc>>

PreNext == PreFilter \/ PreVerify \/ PreSort

SpecPre == PreInit /\ [][PreNext]_vars

(***************************************************************************)
(* Two trees.  exec_node_group is also run on a second tree, H, of one     *)
(* node with one linked output; the steps of its run are interleaved with  *)
(* those of the runs on the first tree.  nodes, socket_links and dag_list  *)
(* are locals of each call; the cache data_trees (line 55) and the list    *)
(* timings (line 265) are module level objects both runs use.              *)
(***************************************************************************)
\* node_group.name of the second tree
NH == "H"

\* the node of the second tree and its output socket
HNode == AdapterId(MaxLinks) + 1

HSock == Sock(HNode, TRUE, 1)

\* lines 284-293 on H: clean(H), timings.clear(), the first records
HBegin ==
    /\ h_pc = "idle"
    /\ data_trees' = (NH :> <<>>) @@ data_trees
    /\ timings' = <<TimeOf("ng", 0, NH), TimeOf("DAG", 0, "DAG"), TimeOf("DAG", 0, "DAG")>>
    /\ h_pc' = "running"
    /\ UNCHANGED <<ng_links, repeat, next_id, nodes, socket_links, vlinked, dag_list, pos,
                   status, error, run, hooks, reads, rl_vars, pre_vars>>

\* lines 294-343 on H: the one node of its schedule is evaluated
HEval ==
    /\ h_pc = "running"
    /\ NH \in DOMAIN data_trees
    /\ data_trees' = [data_trees EXCEPT ![NH] =
           (HSock :> [id |-> next_id, tree |-> SvDataTree(Some(PropValue(HNode, "value")))])
           @@ @]
    /\ next_id' = next_id + 1
    /\ timings' = timings \o <<TimeOf("node", HNode, "value"), TimeOf("func", 0, "value"),
                                TimeOf("func", 0, "value"), TimeOf("node", HNode, "value")>>
    /\ h_pc' = "evaluated"
    /\ UNCHANGED <<ng_links, repeat, nodes, socket_links, vlinked, dag_list, pos,
                   status, error, run, hooks, reads, rl_vars, pre_vars>>

\* lines 344-345 on H
HFinish ==
    /\ h_pc = "evaluated"
    /\ timings' = Append(timings, TimeOf("ng", 0, NH))
    /\ h_pc' = "done"
    /\ UNCHANGED <<ng_links, repeat, data_trees, next_id, nodes, socket_links, vlinked,
                   dag_list, pos, status, error, run, hooks, reads, rl_vars, pre_vars>>

TwoInit ==
    /\ ng_links \in {l \in Layouts : Len(l) <= 1}
    /\ repeat = 1
    /\ Idle
    /\ rl_func = ""
    /\ rl_in_trees = <<>>
    /\ rl_out_trees = <<>>
    /\ rl_result = <<>>
    /\ rl_pc = "off"
    /\ PreOff
    /\ h_pc = "idle"

SpecTwo == TwoInit /\ [][Next \/ HBegin \/ HEval \/ HFinish]_vars

(***************************************************************************)
(* Properties of the scheduler (Spec).                                     *)
(***************************************************************************)
\* the dependency adjacency verify_links builds from the links of the tree
Adjacency == verify_links(filter_reroute(ng_links).links, <<>>, <<>>, FALSE).real_links

AdjProducers(adj, S) ==
    UNION {{adj[c][k] : k \in 1..Len(adj[c])} : c \in S \cap DOMAIN adj}

RECURSIVE Upstream(_, _, _)
Upstream(adj, S, fuel) ==
    IF fuel = 0 THEN S
    ELSE Upstream(adj, S \cup AdjProducers(adj, S), fuel - 1)

HasCycle(adj) ==
    \E n \in DOMAIN adj :
        n \in Upstream(adj, AdjProducers(adj, {n}), Cardinality(GraphNodes(adj)))

\* C1: when the adjacency built from the links is acyclic, the schedule of
\* the run holds the producer of every edge consumer -> producer at an
\* earlier position than the consumer.
ProducersFirst(adj, node_list) ==
    ~HasCycle(adj) =>
        \A c \in DOMAIN adj : \A k \in 1..Len(adj[c]) :
            \E p, q \in 1..Len(node_list) :
                /\ p < q
                /\ node_list[p] = adj[c][k]
                /\ node_list[q] = c

C1_ProducersFirst == run >= 1 => ProducersFirst(Adjacency, dag_list)

\* C1 witness: a diamond (node 3 depends on node 1 directly and through
\* node 4) has been scheduled, the shared producer first.
C1_Witness ==
    /\ run >= 1
    /\ dag_list = <<1, 4, 3>>
    /\ Adjacency = (3 :> <<1, 4>>) @@ (4 :> <<1>>)

\* C2: in a run every scheduled node is evaluated at most once (exactly
\* once when the run returns), every get of one socket returns the same
\* container object, and the first get of an output socket is that of the
\* evaluation of its owner, which alone writes it.
C2_OneEvaluationSharedContainer ==
    /\ \A i, j \in 1..Len(reads) :
          reads[i].socket = reads[j].socket => reads[i].id = reads[j].id
    /\ \A i, j \in 1..Len(hooks) :
          (hooks[i].ev = "eval" /\ hooks[i] = hooks[j]) => i = j
    /\ \A j \in 1..Len(reads) :
          reads[j].node # reads[j].socket.node =>
              \E i \in 1..(j - 1) : /\ reads[i].socket = reads[j].socket
                                    /\ reads[i].node = reads[j].socket.node
    /\ status = "done" =>
          \A k \in 1..Len(dag_list) :
              \E i \in 1..Len(hooks) : hooks[i] = Ev("eval", dag_list[k])

\* C2 witness: the output of node 1 fans out to nodes 4 and 3, evaluated
\* in this order, and the three gets of the socket returned one object.
C2_Witness ==
    /\ status = "done"
    /\ dag_list = <<1, 4, 3>>
    /\ \E i, j, k \in 1..Len(reads) :
          /\ i < j /\ j < k
          /\ reads[i].socket = Sock(1, TRUE, 1) /\ reads[i].node = 1
          /\ reads[j].socket = Sock(1, TRUE, 1) /\ reads[j].node = 4
          /\ reads[k].socket = Sock(1, TRUE, 1) /\ reads[k].node = 3
          /\ reads[i].id = reads[j].id /\ reads[j].id = reads[k].id

\* the start, call and stop events of node n in the run, in order
StatefulEvents(n) ==
    SelectSeq(hooks, LAMBDA e : e.node = n /\ e.ev \in {"start", "call", "stop"})

\* C3: when a run has returned, the start, call and stop events of every
\* stateful node are one start, then its calls, then one stop.
C3_StartOnceStopOnce ==
    status = "done" =>
        \A n \in DOMAIN nodes :
            (IsStateful(nodes[n]) /\ \E k \in 1..Len(dag_list) : dag_list[k] = n) =>
                /\ Len(StatefulEvents(n)) >= 2
                /\ StatefulEvents(n)[1].ev = "start"
                /\ StatefulEvents(n)[Len(StatefulEvents(n))].ev = "stop"
                /\ \A i \in 2..(Len(StatefulEvents(n)) - 1) :
                      StatefulEvents(n)[i].ev = "call"

\* node n has a required input socket that no link ends at
RequiredUnlinked(n) ==
    \E k \in 1..Len(Parameters(nodes[n])) :
        /\ ~Parameters(nodes[n])[k].is_prop
        /\ Required(Sock(n, FALSE, Parameters(nodes[n])[k].index))
        /\ ~IsLinked(ng_links, vlinked, Sock(n, FALSE, Parameters(nodes[n])[k].index))

\* C7: once the loop has reached a node with a required input that is not
\* connected, the run has failed with the required-input error and the
\* function of the node has not been called.
C7_RequiredInputFails ==
    \A n \in DOMAIN nodes :
        ((\E i \in 1..Len(hooks) : hooks[i] = Ev("eval", n)) /\ RequiredUnlinked(n)) =>
            /\ status = "failed"
            /\ error = "RequiredInputUnconnectedError"
            /\ \A i \in 1..Len(hooks) : hooks[i] # Ev("call", n)

Mismatched(from_type, to_type) ==
    needs_conversion(from_type, to_type) /\ ~HasConversion(from_type, to_type)

MissingConversionIn(links) ==
    \E i \in 1..Len(links) :
        Mismatched(Returns(NodeKind(links[i].from_socket.node))[links[i].from_socket.index].type,
                   ToType(NodeKind(links[i].to_socket.node), links[i].to_socket.index))

MissingConversion == MissingConversionIn(filter_reroute(ng_links).links)

\* C9: a run on a tree with such a link has failed with the missing
\* conversion error, and no function and no start hook was called.
C9_MissingConversionFailsFirst ==
    (run >= 1 /\ MissingConversion) =>
        /\ status = "failed"
        /\ error = "MissingConversionError"
        /\ \A i \in 1..Len(hooks) : hooks[i].ev \notin {"call", "start"}

\* C10: a run on a tree whose adjacency has a cycle has failed with the
\* cycle error, with nothing scheduled.
C10_CycleDetected ==
    (run >= 1 /\ HasCycle(Adjacency)) =>
        /\ status = "failed"
        /\ error = "GraphCycleError"
        /\ dag_list = <<>>

(***************************************************************************)
(* Properties of the level matching engine (SpecRL).                       *)
(***************************************************************************)
\* the payload of child k (0-based) of a level 1 container, the last child
\* standing for the missing ones
Clamped(t, k) == t.children[Min(k, Len(t.children) - 1) + 1].data

\* out is a level 1 container of n leaves, leaf k holding what addition
\* gives for child k of a and of b, each clamped to its last child, and
\* calls are the n calls that produced them
ClampedSums(a, b, n, out, calls) ==
    /\ out.level = 1
    /\ Len(out.children) = n
    /\ Len(calls) = n
    /\ \A k \in 0..(n - 1) :
          /\ out.children[k + 1].level = 0
          /\ out.children[k + 1].data = Some(Clamped(a, k)[1] + Clamped(b, k)[1])
          /\ calls[k + 1] = <<Clamped(a, k), Clamped(b, k)>>

\* C4: addition (level 0 x level 0 -> level 0) on two level 1 containers
\* A and B never raises and yields max(len A, len B) children, child k
\* holding A[min(k, len A - 1)] + B[min(k, len B - 1)].
C4_ClampToLastChild ==
    (/\ rl_func = "add"
     /\ rl_in_trees[1].level = 1
     /\ rl_in_trees[2].level = 1
     /\ IsSome(rl_out_trees[1])) =>
        /\ rl_pc # "raised"
        /\ rl_pc = "levelled" =>
              ClampedSums(rl_in_trees[1], rl_in_trees[2],
                          IF Len(rl_in_trees[1].children) >= Len(rl_in_trees[2].children)
                          THEN Len(rl_in_trees[1].children)
                          ELSE Len(rl_in_trees[2].children),
                          rl_result.outs[1][1], rl_result.calls)

\* C4 witness: A = [1, 2, 3] and B = [10, 20] have given [11, 22, 23].
C4_Witness ==
    /\ rl_pc = "levelled"
    /\ rl_func = "add"
    /\ TreeList(rl_in_trees[1]) = <<Some(1), Some(2), Some(3)>>
    /\ TreeList(rl_in_trees[2]) = <<Some(10), Some(20)>>
    /\ TreeList(rl_result.outs[1][1]) = <<Some(11), Some(22), Some(23)>>

\* out is a level 1 container of one leaf per child of a, leaf k holding
\* what addition gives for child k of a and the payload of b, and calls
\* are the calls that produced them, each with the payload of b
BroadcastSums(a, b, out, calls) ==
    /\ out.level = 1
    /\ Len(out.children) = Len(a.children)
    /\ Len(calls) = Len(a.children)
    /\ \A k \in 1..Len(a.children) :
          /\ out.children[k].level = 0
          /\ out.children[k].children = <<>>
          /\ out.children[k].data = Some(a.children[k].data[1] + b.data[1])
          /\ calls[k] = <<a.children[k].data, b.data>>

\* C5: addition on a level 1 container A of n >= 1 payloads and a level 0
\* container B never raises and leaves, after set_level, a level 1 output
\* of n children, child k holding A[k] + B.
C5_BroadcastOverOneInput ==
    (/\ rl_func = "add"
     /\ rl_in_trees[1].level = 1
     /\ rl_in_trees[2].level = 0
     /\ IsSome(rl_in_trees[2].data)
     /\ IsSome(rl_out_trees[1])) =>
        /\ rl_pc # "raised"
        /\ rl_pc = "levelled" =>
              BroadcastSums(rl_in_trees[1], rl_in_trees[2],
                            rl_result.outs[1][1], rl_result.calls)

\* C5 witness: A = [1, 2, 3] and B = 10 have given [11, 12, 13].
C5_Witness ==
    /\ rl_pc = "levelled"
    /\ rl_func = "add"
    /\ TreeList(rl_in_trees[1]) = <<Some(1), Some(2), Some(3)>>
    /\ rl_in_trees[2] = SvDataTree(Some(10))
    /\ TreeList(rl_result.outs[1][1]) = <<Some(11), Some(12), Some(13)>>

\* every input container is at the level its parameter declares
AtDeclaredLevels ==
    \A k \in 1..Len(rl_in_trees) : rl_in_trees[k].level = Parameters(rl_func)[k].level

\* what the function is handed for a container at its declared level
Payload(t) ==
    IF t.level = 0 THEN t.data ELSE [k \in 1..Len(t.children) |-> t.children[k].data]

\* C6: with every input at its declared level the function has been called
\* once, with the payload of each level 0 input and the payloads of the
\* children of each level 1 input, and no child container was added to an
\* output; the output of an addition then holds the sum and is at level 0.
C6_BaseCaseCallsOnce ==
    (rl_pc \in {"called", "raised", "levelled"} /\ AtDeclaredLevels) =>
        /\ Len(rl_result.calls) = 1
        /\ rl_result.calls[1] = [k \in 1..Len(rl_in_trees) |-> Payload(rl_in_trees[k])]
        /\ rl_result.adds = 0
        /\ (rl_func = "add" /\ IsSome(rl_out_trees[1]) /\ rl_pc = "levelled") =>
              /\ rl_result.outs[1][1].level = 0
              /\ rl_result.outs[1][1].children = <<>>
              /\ IsSome(rl_in_trees[1].data) /\ IsSome(rl_in_trees[2].data)
              /\ rl_result.outs[1][1].data =
                    Some(rl_in_trees[1].data[1] + rl_in_trees[2].data[1])

\* C6 witness: sum (level 1 -> level 0) was called once with the three
\* payloads of a level 1 container and its output holds their sum.
C6_Witness ==
    /\ rl_pc = "levelled"
    /\ rl_func = "sum"
    /\ rl_in_trees[1].level = 1
    /\ rl_result.calls = <<<<<<Some(1), Some(2), Some(3)>>>>>>
    /\ rl_result.adds = 0
    /\ IsSome(rl_result.outs[1])
    /\ rl_result.outs[1][1].level = 0
    /\ rl_result.outs[1][1].data = Some(6)

(***************************************************************************)
(* Properties of a run that is aborted, and of the reset of the cache.     *)
(***************************************************************************)
\* node n stands in the schedule before position p
ScheduledBefore(n, p) == \E k \in 1..(p - 1) : k <= Len(dag_list) /\ dag_list[k] = n

\* no node after position p of the schedule has been evaluated
NoneEvaluatedAfter(p) ==
    \A k \in (p + 1)..Len(dag_list) :
        \A i \in 1..Len(hooks) : hooks[i] # Ev("eval", dag_list[k])

\* the step keeps every container of the nodes scheduled before position p
KeepsEarlier(before, after, p) ==
    \A s \in DOMAIN before :
        ScheduledBefore(s.node, p) => s \in DOMAIN after /\ after[s] = before[s]

\* C11: when the evaluation at position pos fails, no later node is ever
\* evaluated in the run, the step that fails leaves the containers of the
\* nodes before pos as they were, and the only step out of the failed run
\* is the start of the next run, which empties the cache of the tree.
C11_AbortKeepsEarlierAndStops ==
    /\ [](status = "failed" => NoneEvaluatedAfter(pos))
    /\ [][(status = "running" /\ status' = "failed") =>
             KeepsEarlier(data_trees[NG], data_trees'[NG], pos)]_vars
    /\ [][status = "failed" => (run' = run + 1 /\ data_trees'[NG] = <<>>)]_vars

\* C11 witness: the second run of a tree has failed at the third position
\* of its schedule, like the first, with the output of the first node in
\* the cache.
C11_Witness ==
    /\ run = 2
    /\ status = "failed"
    /\ error = "TypeError"
    /\ pos = 3
    /\ Sock(dag_list[1], TRUE, 1) \in DOMAIN data_trees[NG]
    /\ IsSome(data_trees[NG][Sock(dag_list[1], TRUE, 1)].tree.data)

(***************************************************************************)
(* Properties of the preprocessing of passthrough nodes.                   *)
(***************************************************************************)
\* the output socket that feeds input socket s once the passthrough nodes
\* on the way are left out
RECURSIVE Feeds(_, _, _)
Feeds(links, s, fuel) ==
    IF fuel = 0 \/ ~\E i \in 1..Len(links) : links[i].to_socket = s THEN s
    ELSE LET l == links[CHOOSE i \in 1..Len(links) : links[i].to_socket = s]
         IN  IF IsReroute(l.from_socket.node)
             THEN Feeds(links, Sock(l.from_socket.node, FALSE, 1), fuel - 1)
             ELSE l.from_socket

\* the same tree with every passthrough node taken out and its consumer
\* linked to the upstream producer directly
RECURSIVE Direct(_, _)
Direct(links, i) ==
    IF i > Len(links) THEN <<>>
    ELSE IF IsReroute(links[i].to_socket.node) THEN Direct(links, i + 1)
    ELSE IF IsReroute(links[i].from_socket.node)
    THEN <<Link(Feeds(links, links[i].to_socket, Len(links)), links[i].to_socket)>>
         \o Direct(links, i + 1)
    ELSE <<links[i]>> \o Direct(links, i + 1)

HasReroute(links) == \E i \in 1..Len(links) : IsReroute(links[i].from_socket.node)

AllValid(links) == \A i \in 1..Len(links) : links[i].is_valid

\* DAG has returned or raised and the loop has not begun
JustPreprocessed == run >= 1 /\ \A i \in 1..Len(hooks) : hooks[i].ev # "eval"

\* the run was preprocessed as DAG preprocesses the tree to the result r
PreprocessedAs(r) ==
    /\ error = r.err
    /\ dag_list = r.node_list
    /\ nodes = r.nodes
    /\ socket_links = r.socket_links

\* C12: a run on a tree with passthrough nodes is preprocessed as the tree
\* with the direct links is: same failure or none, same schedule, same
\* compiled nodes and same producer of every input socket, and no
\* passthrough node is compiled or scheduled.
C12_RerouteTransparent ==
    (JustPreprocessed /\ AllValid(ng_links) /\ HasReroute(ng_links)) =>
        /\ \E order \in Orders(DAGStarts(Direct(ng_links, 1))) :
              PreprocessedAs(DAG(Direct(ng_links, 1), <<>>, <<>>, order))
        /\ \A n \in DOMAIN nodes : ~IsReroute(n)
        /\ \A k \in 1..Len(dag_list) : ~IsReroute(dag_list[k])

(***************************************************************************)
(* Properties of the adapter nodes.                                        *)
(***************************************************************************)
\* the declared types of the two ends of a link of the tree
FromType(l) == Returns(NodeKind(l.from_socket.node))[l.from_socket.index].type

DeclaredToType(l) == ToType(NodeKind(l.to_socket.node), l.to_socket.index)

\* the positions of the links whose types mismatch and have an adapter
NeedAdapter(links) ==
    {i \in 1..Len(links) :
        /\ needs_conversion(FromType(links[i]), DeclaredToType(links[i]))
        /\ HasConversion(FromType(links[i]), DeclaredToType(links[i]))}

Evals(n) == {i \in 1..Len(hooks) : hooks[i] = Ev("eval", n)}

\* node a is the one adapter of link l: scheduled once, after the source
\* and before the destination of l, whose input resolves to its output
AdapterBetween(l, a) ==
    /\ a \in DOMAIN nodes
    /\ IsVirtual(a)
    /\ Cardinality({q \in 1..Len(dag_list) : dag_list[q] = a}) = 1
    /\ \E p, q, r \in 1..Len(dag_list) :
          /\ p < q /\ q < r
          /\ dag_list[p] = l.from_socket.node
          /\ dag_list[q] = a
          /\ dag_list[r] = l.to_socket.node
    /\ l.to_socket \in DOMAIN socket_links
    /\ socket_links[l.to_socket] = Sock(a, TRUE, 1)

\* in a run that returned, a was evaluated once, between the evaluations of
\* the two ends of l, and the destination read the container a wrote
AdapterEvaluatedOnce(l, a) ==
    /\ Cardinality(Evals(a)) = 1
    /\ \A i \in Evals(l.from_socket.node) : \A j \in Evals(a) : i < j
    /\ \A j \in Evals(a) : \A k \in Evals(l.to_socket.node) : j < k
    /\ \E i, j \in 1..Len(reads) :
          /\ i < j
          /\ reads[i].node = a
          /\ reads[i].socket = Sock(a, TRUE, 1)
          /\ reads[j].node = l.to_socket.node
          /\ reads[j].socket = Sock(a, TRUE, 1)
          /\ reads[j].id = reads[i].id

AdaptersOf(links) ==
    /\ Cardinality({n \in DOMAIN nodes : IsVirtual(n)}) = Cardinality(NeedAdapter(links))
    /\ \A i \in NeedAdapter(links) :
          /\ AdapterBetween(links[i], AdapterId(i))
          /\ status = "done" => AdapterEvaluatedOnce(links[i], AdapterId(i))

\* C13: in a run on a tree whose links are valid, have an adapter where
\* their types mismatch and form no cycle that is met, there is one
\* adapter node per mismatched link, scheduled once between the source and
\* the destination of the link; when the run has returned it was evaluated
\* once, in that order, and the destination read its output.
C13_OneAdapterPerLinkOncePerRun ==
    (/\ run >= 1
     /\ AllValid(ng_links)
     /\ ~MissingConversion
     /\ error # "RecursionError") =>
        AdaptersOf(filter_reroute(ng_links).links)

(***************************************************************************)
(* Properties of verify_links (SpecPre).                                   *)
(***************************************************************************)
\* C14: on the same links verify_links gives the same adjacency, the same
\* producer of every input socket and the same failure or none, whether
\* the adapters are nodes of the tree (real_nodes) or virtual nodes.
C14_RealAndVirtualAdaptersAgree ==
    pre_pc \in {"verified", "sorted"} =>
        /\ pre_verified[TRUE].err = pre_verified[FALSE].err
        /\ pre_verified[TRUE].real_links = pre_verified[FALSE].real_links
        /\ pre_verified[TRUE].socket_links = pre_verified[FALSE].socket_links

\* C14 witness: links with two adapters were verified both ways, the
\* adapters made as nodes and links of the tree in one and as virtual
\* nodes in the other.
C14_Witness ==
    /\ pre_pc = "verified"
    /\ pre_verified[TRUE].err = ""
    /\ Len(pre_verified[TRUE].made) = 4
    /\ Cardinality(pre_verified[FALSE].vl) = 4
    /\ Cardinality({n \in DOMAIN pre_verified[FALSE].real_links : IsVirtual(n)}) = 2

(***************************************************************************)
(* Properties of the cache over several runs (Spec).                       *)
(***************************************************************************)
\* the entries of the tree in the cache, none before the first run
Entries(db) == IF NG \in DOMAIN db THEN db[NG] ELSE <<>>

\* every entry of before is in after, with the same container object
EntriesKept(before, after) ==
    \A s \in DOMAIN before : s \in DOMAIN after /\ after[s].id = before[s].id

\* every entry of after that before lacks holds an object made by this step
EntriesNew(before, after, first_id) ==
    \A s \in DOMAIN after : s \notin DOMAIN before => after[s].id >= first_id

\* C15: the step that starts a run leaves no entry of the tree in the
\* cache, also when preprocessing fails; no other step removes or replaces
\* an entry, and an entry it adds is a new object; so every container got
\* in a run is an entry of the cache made in that run.
C15_CacheClearedFirstEveryRun ==
    /\ [][run' # run => (Entries(data_trees') = <<>> /\ reads' = <<>>)]_vars
    /\ [][run' = run =>
             /\ EntriesKept(Entries(data_trees), Entries(data_trees'))
             /\ EntriesNew(Entries(data_trees), Entries(data_trees'), next_id)]_vars
    /\ [](\A i \in 1..Len(reads) :
             /\ reads[i].socket \in DOMAIN Entries(data_trees)
             /\ Entries(data_trees)[reads[i].socket].id = reads[i].id)

\* C15 witness: the second run has returned and every container it got was
\* made after the first run had made one.
C15_Witness ==
    /\ run = 2
    /\ status = "done"
    /\ Len(reads) >= 2
    /\ \A i \in 1..Len(reads) : reads[i].id >= 2

(***************************************************************************)
(* C16.  Runs on two different trees, steps interleaved.                   *)
(***************************************************************************)
\* the records add_time makes only in a run on the second tree
HRecords == {TimeOf("ng", 0, NH), TimeOf("node", HNode, "value")}

\* the report of a run on the first tree alone: it opens and closes with the
\* record of that tree and holds no record of another tree
ReportOfAlone(t) ==
    /\ Len(t) >= 2
    /\ t[1] = TimeOf("ng", 0, NG)
    /\ t[Len(t)] = TimeOf("ng", 0, NG)
    /\ \A i \in 1..Len(t) : t[i] \notin HRecords

\* C16: with the steps of a run on another tree H interleaved, a run on G
\* that returns has the timing report it has alone (G's records only, opened and
\* closed by G's record), every container it read is still G's cache entry,
\* and the entry the run on H stored stays in H's cache whatever the runs on
\* G clean.
C16_StateKeyedByGraph ==
    /\ [][(status = "running" /\ status' = "done") => ReportOfAlone(timings')]_vars
    /\ [](status = "done" =>
           \A i \in 1..Len(reads) :
               /\ reads[i].socket \in DOMAIN Entries(data_trees)
               /\ Entries(data_trees)[reads[i].socket].id = reads[i].id)
    /\ [](h_pc \in {"evaluated", "done"} =>
           /\ NH \in DOMAIN data_trees
           /\ HSock \in DOMAIN data_trees[NH])

\* the cache half of C16 alone, which holds
C16_CacheKeyedByGraph ==
    /\ status = "done" =>
           \A i \in 1..Len(reads) :
               /\ reads[i].socket \in DOMAIN Entries(data_trees)
               /\ Entries(data_trees)[reads[i].socket].id = reads[i].id
    /\ h_pc \in {"evaluated", "done"} =>
           /\ NH \in DOMAIN data_trees
           /\ HSock \in DOMAIN data_trees[NH]

(***************************************************************************)
(* C17.  What verify_links leaves of a mismatched link (SpecPre).          *)
(***************************************************************************)
InSeq(x, q) == \E k \in 1..Len(q) : q[k] = x

\* another link of the list that is not superseded joins the same producer
\* and consumer nodes as link i
JoinedOtherwise(v, i) ==
    \E j \in (1..Len(v.links)) \ (v.skip \cup {i}) :
        /\ v.links[j].from_socket.node = v.links[i].from_socket.node
        /\ v.links[j].to_socket.node = v.links[i].to_socket.node

\* link l at position i was replaced by the adapter node a of conversion conv
Superseded(v, l, i, a, conv) ==
    /\ i \in v.skip
    /\ v.socket_links[l.to_socket] = Sock(a, TRUE, conv.from_index)
    /\ v.socket_links[l.to_socket] # l.from_socket
    /\ \A k \in 1..Len(conv.to_index) :
           /\ Sock(a, FALSE, conv.to_index[k]) \in DOMAIN v.socket_links
           /\ v.socket_links[Sock(a, FALSE, conv.to_index[k])] = l.from_socket
    /\ InSeq(a, v.real_links[l.to_socket.node])
    /\ a \in DOMAIN v.real_links
    /\ InSeq(l.from_socket.node, v.real_links[a])
    /\ (~JoinedOtherwise(v, i) =>
           ~InSeq(l.from_socket.node, v.real_links[l.to_socket.node]))

\* link l at position i was kept as it is
Kept(v, l, i) ==
    /\ i \notin v.skip
    /\ v.socket_links[l.to_socket] = l.from_socket
    /\ InSeq(l.from_socket.node, v.real_links[l.to_socket.node])

VerifiedAsC17(links, v) ==
    /\ Len(v.links) >= Len(links)
    /\ \A i \in 1..Len(links) :
           /\ v.links[i] = links[i]
           /\ (i \in NeedAdapter(links) =>
                  Superseded(v, links[i], i, AdapterId(i),
                             get_conversion(FromType(links[i]), DeclaredToType(links[i]))))
           /\ (~needs_conversion(FromType(links[i]), DeclaredToType(links[i])) =>
                  Kept(v, links[i], i))

\* C17: when verify_links has returned, every mismatched link with an adapter
\* is superseded: its consumer socket resolves to the adapter's output and
\* not to its producer socket, the adapter's inputs resolve to the producer
\* socket, the consumer depends on the adapter and the adapter on the
\* producer, and the link adds no dependency of its own; links whose types
\* match are kept; every original link is at its position in the list.
C17_MismatchedLinkSuperseded ==
    pre_pc \in {"verified", "sorted"} =>
        \A r \in BOOLEAN :
            pre_verified[r].err = "" => VerifiedAsC17(pre_filtered.links, pre_verified[r])

\* C17 witness: verify_links returned for a list with two mismatched links
\* it replaced by adapters and a matching link it kept.
C17_Witness ==
    /\ pre_pc = "verified"
    /\ pre_verified[FALSE].err = ""
    /\ Cardinality(NeedAdapter(pre_filtered.links)) = 2
    /\ Cardinality(pre_verified[FALSE].skip) = 2
    /\ \E i \in 1..Len(pre_filtered.links) :
           ~needs_conversion(FromType(pre_filtered.links[i]),
                             DeclaredToType(pre_filtered.links[i]))

(***************************************************************************)
(* C18.  Mismatched links made by filter_reroute (SpecPre).                *)
(***************************************************************************)
\* the same list with every link a link of the tree: the producer and the
\* consumer of each synthesized link linked directly
LinkedDirectly(links) == [i \in 1..Len(links) |-> [links[i] EXCEPT !.virtual = FALSE]]

\* the positions of the mismatched links with an adapter that filter_reroute
\* synthesized
SynthesizedMismatch(links) == {i \in NeedAdapter(links) : links[i].virtual}

SameVerified(v, d) ==
    /\ v.err = d.err
    /\ v.nodes = d.nodes
    /\ v.real_links = d.real_links
    /\ v.socket_links = d.socket_links

\* C18: a mismatched edge with an adapter that is routed through a
\* passthrough node is verified as the same edge linked directly is: same
\* adapter node, same adjacency, same producer map, and no failure that the
\* direct links do not give.
C18_SynthesizedLinksReconciled ==
    (pre_pc \in {"verified", "sorted"} /\ SynthesizedMismatch(pre_filtered.links) # {}) =>
        \A r \in BOOLEAN :
            SameVerified(pre_verified[r],
                         verify_links(LinkedDirectly(pre_filtered.links), <<>>, <<>>, r))

(***************************************************************************)
(* C19.  The weights of topo_sort (SpecPre).                               *)
(***************************************************************************)
Consumers(links, n) == {c \in DOMAIN links : InSeq(n, links[c])}

\* the number of edges of the longest path that ends in n and begins at a
\* node no node depends on
RECURSIVE LongestPath(_, _, _)
LongestPath(links, n, fuel) ==
    IF fuel = 0 \/ Consumers(links, n) = {} THEN 0
    ELSE 1 + SetMax({LongestPath(links, c, fuel - 1) : c \in Consumers(links, n)})

WeightsAreLongestPaths(links, ts) ==
    ~HasCycle(links) =>
        /\ ts.err = ""
        /\ DOMAIN ts.weights = GraphNodes(links)
        /\ \A n \in DOMAIN ts.weights :
               ts.weights[n] = LongestPath(links, n, Cardinality(GraphNodes(links)))

\* C19: on an acyclic adjacency, whatever the order of the start nodes and
\* of the producers of a node, the weight topo_sort gives a node is the
\* length of the longest path to it from a start node, 0 for a start node.
C19_WeightIsLongestPath ==
    pre_pc = "sorted" => WeightsAreLongestPaths(pre_verified[FALSE].real_links, pre_sorted)

\* C19 witness: node 3 depends on node 1 through node 4 and directly, the
\* longer path visited first: node 1 has weight 2 after the later visit
\* with weight 1.
C19_Witness ==
    /\ pre_pc = "sorted"
    /\ 3 \in DOMAIN pre_verified[FALSE].real_links
    /\ pre_verified[FALSE].real_links[3] = <<4, 1>>
    /\ pre_sorted.err = ""
    /\ pre_sorted.weights[1] = 2
    /\ pre_sorted.weights[3] = 0

(***************************************************************************)
(* C20.  The schedule is the part of the graph reachable from the starts.  *)
(***************************************************************************)
\* the nodes that consume through a surviving link and produce for none
StartsOf(adj) == {n \in DOMAIN adj : adj[n] # <<>> /\ Consumers(adj, n) = {}}

\* the nodes reachable from a start node along consumer -> producer edges
Reachable(adj) == Upstream(adj, StartsOf(adj), Cardinality(GraphNodes(adj)))

\* a cycle can be entered from a start node
CycleReachable(adj, reach) ==
    \E n \in reach :
        n \in Upstream(adj, AdjProducers(adj, {n}), Cardinality(GraphNodes(adj)))

Scheduled(node_list) == {node_list[k] : k \in 1..Len(node_list)}

ScheduleIsReachable(pre, reach) ==
    /\ \A p, q \in 1..Len(dag_list) : p # q => dag_list[p] # dag_list[q]
    /\ Scheduled(dag_list) \subseteq reach
    /\ ((pre.err = "" /\ ~CycleReachable(pre.real_links, reach)) =>
           Scheduled(dag_list) = reach)
    /\ \A i \in 1..Len(hooks) :
           hooks[i].ev \in {"eval", "call"} => hooks[i].node \in reach

\* C20: the schedule of a run holds exactly the nodes reachable from a start
\* node (when preprocessing can return one), each once; a node that has no
\* surviving link or is reachable from no start node is not scheduled, not
\* evaluated and its function is not called.
C20_ScheduleIsReachableFromStarts ==
    run >= 1 => ScheduleIsReachable(
                    verify_links(filter_reroute(ng_links).links, <<>>, <<>>, FALSE),
                    Reachable(Adjacency))

\* C20 witness: a run has returned on a tree with a chain that was
\* scheduled and evaluated and two linked nodes, each the producer of the
\* other, that no start reaches and that were left out.
C20_Witness ==
    /\ status = "done"
    /\ HasCycle(Adjacency)
    /\ Scheduled(dag_list) = Reachable(Adjacency)
    /\ Len(dag_list) >= 2
    /\ \A k \in 1..Len(dag_list) : Ev("eval", dag_list[k]) \in Scheduled(hooks)
    /\ GraphNodes(Adjacency) \ Scheduled(dag_list) = {3, 4}

(***************************************************************************)
(* C21.  The number of sub-calls of the recursive case (SpecRL).           *)
(***************************************************************************)
\* the inputs whose level is not the declared level of their parameter
Axes(in_levels, in_trees) ==
    {k \in 1..Len(in_trees) : in_trees[k].level # in_levels[k]}

\* the maximum child count among the broadcast-axis inputs
AxisMax(in_levels, in_trees) ==
    SetMax({0} \cup {Len(in_trees[k].children) : k \in Axes(in_levels, in_trees)})

\* the call took the recursive case
RLRecursive == rl_pc # "ready" /\ ~LevelsMatch(InLevels(rl_func), rl_in_trees)

SubCallsAre(n, r) ==
    /\ (n = 0 => (r.err = "" /\ r.calls = <<>> /\ r.adds = 0))
    /\ (r.err = "" =>
           \A j \in 1..Len(r.outs) : IsSome(r.outs[j]) => Len(r.outs[j][1].children) = n)

\* C21: in the recursive case every connected output container gets n
\* children, n the maximum child count among the broadcast-axis inputs;
\* with n = 0 there is no sub-call, no call of the function, no child and
\* no failure.
C21_SubCallsAreMaxChildCount ==
    RLRecursive => SubCallsAre(AxisMax(InLevels(rl_func), rl_in_trees), rl_result)

(***************************************************************************)
(* C22.  Which inputs are broadcast axes (SpecRL).                         *)
(***************************************************************************)
\* the inputs whose level does not exceed the declared level
Held(in_levels, in_trees) ==
    {k \in 1..Len(in_trees) : in_trees[k].level <= in_levels[k]}

\* input k reached every call of the function as the container t itself
PassedUnchanged(r, k, t) ==
    /\ r.err # "IndexError"
    /\ \A c \in 1..Len(r.calls) : r.calls[c][k] = BaseArgs(<<t>>)[1]

\* C22: in the recursive case an input whose level does not exceed the
\* declared level of its parameter, such as the level 0 container of a
\* stored default, is no broadcast axis: no child of it is looked for and
\* every call of the function gets that same container.
C22_OnlyDeeperInputsAreAxes ==
    RLRecursive =>
        \A k \in Held(InLevels(rl_func), rl_in_trees) :
            PassedUnchanged(rl_result, k, rl_in_trees[k])

(***************************************************************************)
(* C23.  Absent output containers (SpecRL).                                *)
(***************************************************************************)
\* the same call with every output connected to a new container
AllConnected(f) == [j \in 1..Len(Returns(f)) |-> Some(SvDataTree(None))]

Connected(out_trees) == {j \in 1..Len(out_trees) : IsSome(out_trees[j])}

\* r is what the call with the outputs out_trees left, ref what the call
\* with every output connected leaves; levelled: set_level has been applied
\* to r
AbsentDiscarded(out_trees, r, ref, levelled) ==
    /\ \A j \in (1..Len(out_trees)) \ Connected(out_trees) : r.outs[j] = None
    /\ r.calls = ref.calls
    /\ r.err = ref.err
    /\ r.adds * Len(out_trees) = ref.adds * Cardinality(Connected(out_trees))
    /\ \A j \in Connected(out_trees) :
           r.outs[j][1] = IF levelled THEN set_level(ref.outs[j][1]) ELSE ref.outs[j][1]

\* C23: a call with absent output containers calls the function as often
\* and with the same arguments as the call with every output connected,
\* fails or returns alike, leaves the absent outputs absent, adds children
\* only under the connected outputs and writes those as the call with every
\* output connected writes them.
C23_AbsentOutputDiscarded ==
    rl_pc \in {"called", "raised", "levelled"} =>
        AbsentDiscarded(rl_out_trees, rl_result,
                        recurse_levels(rl_func, InLevels(rl_func), OutLevels(rl_func),
                                       rl_in_trees, AllConnected(rl_func)),
                        rl_pc = "levelled")

\* C23 witness: split, whose first output is absent and second connected,
\* was broadcast over a list: several calls, and as many children under the
\* second output only.
C23_Witness ==
    /\ rl_pc = "levelled"
    /\ rl_func = "split"
    /\ rl_out_trees[1] = None
    /\ IsSome(rl_out_trees[2])
    /\ Len(rl_result.calls) >= 2
    /\ rl_result.outs[1] = None
    /\ Len(rl_result.outs[2][1].children) = Len(rl_result.calls)
    /\ rl_result.adds = Len(rl_result.calls)

\* the driver's half of C23 (Spec): the cache holds containers of linked
\* output sockets only
C23_UnlinkedOutputUncached ==
    \A s \in DOMAIN Entries(data_trees) : s.is_output /\ IsLinked(ng_links, vlinked, s)

(***************************************************************************)
(* C24.  Every chain of sub-calls ends in a call of the function (SpecRL). *)
(***************************************************************************)
\* every input is at least as deep as its parameter declares
DeepEnough(in_levels, in_trees) ==
    \A k \in 1..Len(in_trees) : in_trees[k].level >= in_levels[k]

\* some input has children of unequal levels
Ragged(t) ==
    \E i, j \in 1..Len(t.children) : t.children[i].level # t.children[j].level

\* C24: when every input is at least as deep as declared, recurse_levels
\* returns having called the function, or ends because the function itself
\* raised; no chain of sub-calls ends without reaching the base case.
C24_RecursionReachesBaseCase ==
    (rl_pc # "ready" /\ DeepEnough(InLevels(rl_func), rl_in_trees)) =>
        /\ rl_result.err \in {"", "TypeError"}
        /\ Len(rl_result.calls) >= 1

(***************************************************************************)
(* C25.  What a consumer reads from the cache (Spec).                      *)
(***************************************************************************)
\* level = 1 + max(level of the children), or 0 without children, at every
\* depth
RECURSIVE LevelFinal(_)
LevelFinal(t) ==
    IF Len(t.children) = 0 THEN t.level = 0
    ELSE /\ t.level = 1 + SetMax({t.children[i].level : i \in 1..Len(t.children)})
         /\ \A i \in 1..Len(t.children) : LevelFinal(t.children[i])

\* something was written to the container
Written(t) == IsSome(t.data) \/ Len(t.children) > 0

\* the producer of socket s was evaluated to its end earlier in this run
ProducerDone(s) ==
    /\ \E q \in 1..(pos - 1) : q <= Len(dag_list) /\ dag_list[q] = s.node
    /\ Ev("eval", s.node) \in Scheduled(hooks)

\* read rd of an input was of a container the cache db already held
ReadFinal(rd, db) ==
    /\ rd.socket \in DOMAIN db
    /\ db[rd.socket].id = rd.id
    /\ Written(db[rd.socket].tree)
    /\ LevelFinal(db[rd.socket].tree)
    /\ ProducerDone(rd.socket)

====
